---- MODULE Spec2Model ----
(***************************************************************************)
(* Model of ctparse/corpus.py: the dataset builder                         *)
(* (make_partial_rule_dataset) and the corpus validator                    *)
(* (_run_corpus_one_test / run_corpus).                                    *)
(*                                                                         *)
(* The parse-candidate generator ctparse_gen is external: what it yields   *)
(* for a text is a nondeterministic choice among Candidates, one candidate *)
(* per step, and its exhaustion is a step of its own.  Scores are written  *)
(* in tenths (9 is 0.9, 4 is 0.4).                                         *)
(***************************************************************************)
EXTENDS Integers, Sequences, FiniteSets, TLC

\* ---------------------------------------------------------------- bounds
MaxTargets == 2     \* len(corpus) is at most this
MaxTests   == 2     \* len(tests) of one test case is at most this
MaxParses  == 3     \* candidates the generator yields in one run, in total
MaxProdLen == 2     \* len(parse.production) is at most this
MaxEntries == 2     \* len(entries) of the builder is at most this

\* ------------------------------------------------- the generator's values
Resolutions ==
    { [kind |-> "Time", text |-> "2023-01-02T15:00:00"],
      [kind |-> "Time", text |-> "2023-01-02T03:00:00"] }

Scores == {4, 9}

\* A production of length n, for the shortest and for the longest length;
\* its elements are pairwise different, so that the order of a prefix is
\* visible.
Productions == { [j \in 1..n |-> 10 * n + j] : n \in {1, MaxProdLen} }

\* The score the scorer gives to a derivation: it is computed from the
\* production, here 0.9 for the shortest and 0.4 for the longest.
ScoreOf(production) == IF Len(production) = 1 THEN 9 ELSE 4

Candidates ==
    { [production |-> p, resolution |-> r, score |-> ScoreOf(p)] :
        p \in Productions, r \in Resolutions }

\* The "parse is None" result the builder tolerates.
None == [production |-> <<>>, resolution |-> [kind |-> "None", text |-> ""], score |-> 0]

\* Artifact.nb_str(): the canonical text, prefixed by the type name.
NbStr(r) == r.kind \o "(" \o r.text \o ")"

Targets == { NbStr(r) : r \in Resolutions }

\* str(p) of one production element.
Str(p) == ToString(p)

\* int(b) of a bool.
BoolInt(b) == IF b THEN 1 ELSE 0

\* --------------------------------------------------------- pure functions
\* make_partial_rule_dataset, lines 99-101: the (X, y) pairs of one parse.
PartialRules(parse, y) ==
    [i \in 1..Len(parse.production) |->
        <<[j \in 1..i |-> Str(parse.production[j])], y>>]

\* Lines 177-178 with range(len(parse.production)): one prefix too short.
SamplesX_RangeFromZero(parse) ==
    [i \in 1..Len(parse.production) |-> [j \in 1..(i - 1) |-> Str(parse.production[j])]]

\* _run_corpus_one_test, lines 177-179: what one parse appends to Xs ...
SamplesX(parse) ==
    [i \in 1..Len(parse.production) |-> [j \in 1..i |-> Str(parse.production[j])]]

\* Line 179 labelling a prefix as correct only when it is the whole production.
SamplesY_OnlyFullProduction(parse, y) ==
    [i \in 1..Len(parse.production) |-> y /\ i = Len(parse.production)]

\* ... and to ys.
SamplesY(parse, y) == [i \in 1..Len(parse.production) |-> y]

\* line 181: one_prod_passes |= y
OrAssign(one_prod_passes_, y) == one_prod_passes_ \/ y

\* Line 184 without the first_prod test.
FirstCorrect_AnyProd(y, first_prod_) == y

\* line 184: y and first_prod
FirstCorrect(y, first_prod_) == y /\ first_prod_

\* Line 193 as a plain assignment.
AndAssign_Overwrite(all_tests_pass_, one_prod_passes_) == one_prod_passes_

\* line 193: all_tests_pass &= one_prod_passes
AndAssign(all_tests_pass_, one_prod_passes_) == all_tests_pass_ /\ one_prod_passes_

\* line 262: at_least_one_failed or at_least_one_failed_
OrFailed(failed, failed_) == failed \/ failed_

\* max(y_score, key=lambda x: x[0]): the builtin keeps the first of the
\* elements with the largest key (a later one replaces it only when its key
\* is strictly larger).
RECURSIVE MaxFrom(_, _, _)
MaxFrom(s, k, best) ==
    IF k > Len(s) THEN best
    ELSE MaxFrom(s, k + 1, IF s[k][1] > best[1] THEN s[k] ELSE best)

\* Line 191 taking the last candidate yielded for the best one.
MaxByScore_LastYielded(y_score_) == y_score_[Len(y_score_)]

\* Line 191 with a maximum that keeps the last of the tied elements.
RECURSIVE MaxFromLast(_, _, _)
MaxFromLast(s, k, best) ==
    IF k > Len(s) THEN best
    ELSE MaxFromLast(s, k + 1, IF s[k][1] >= best[1] THEN s[k] ELSE best)

MaxByScore_LastOfTied(y_score_) == MaxFromLast(y_score_, 2, y_score_[1])

MaxByScore(y_score_) == MaxFrom(y_score_, 2, y_score_[1])

\* ------------------------------------------------------------------ state
VARIABLES
    pc,                  \* position of the running function
    corpus_len,          \* len(corpus)
    Xs, ys,              \* run_corpus accumulators
    total_tests, pos_parses, neg_parses, pos_first_parses, pos_best_scored,
    at_least_one_failed,
    target, tests_len,   \* arguments of the running _run_corpus_one_test
    tests_done,          \* position of "for test in tests"
    all_tests_pass,
    Xs_, ys_, total_tests_, pos_parses_, neg_parses_, pos_first_parses_,
    pos_best_scored_,
    one_prod_passes, first_prod, y_score,
    log,                 \* the records handed to logger
    consumed,            \* the test cases read so far, with what was yielded
    entries_len,         \* len(entries) of the builder
    gold,                \* entry.gold of the current entry
    rows,                \* the (X, y) pairs the builder has yielded
    fed                  \* the entries read so far, with what was yielded

runVars   == <<corpus_len, Xs, ys, total_tests, pos_parses, neg_parses,
               pos_first_parses, pos_best_scored, at_least_one_failed>>
testVars  == <<target, tests_len, tests_done, all_tests_pass, Xs_, ys_,
               total_tests_, pos_parses_, neg_parses_, pos_first_parses_,
               pos_best_scored_>>
sentVars  == <<one_prod_passes, first_prod, y_score>>
buildVars == <<entries_len, gold, rows, fed>>
vars      == <<pc, runVars, testVars, sentVars, log, consumed, buildVars>>

\* --------------------------------------------------------------- history
\* Appends x to the last element of the sequence of sequences ss.
AppendToLast(ss, x) == [ss EXCEPT ![Len(ss)] = Append(@, x)]

\* consumed[t] = [target, tests_len, sentences]; sentences[s] is the
\* sequence of candidates yielded so far for sentence s of test case t.
YieldTo(cons, parse) ==
    [cons EXCEPT ![Len(cons)].sentences = AppendToLast(@, parse)]

\* -------------------------------------------------------------- validator
InitLocals ==
    /\ target = "" /\ tests_len = 0 /\ tests_done = 0
    /\ all_tests_pass = TRUE
    /\ Xs_ = <<>> /\ ys_ = <<>>
    /\ total_tests_ = 0 /\ pos_parses_ = 0 /\ neg_parses_ = 0
    /\ pos_first_parses_ = 0 /\ pos_best_scored_ = 0
    /\ one_prod_passes = FALSE /\ first_prod = TRUE /\ y_score = <<>>

\* run_corpus, lines 235-243.
InitRun ==
    /\ pc = "run_loop"
    /\ corpus_len \in 0..MaxTargets
    /\ Xs = <<>> /\ ys = <<>>
    /\ total_tests = 0
    /\ pos_parses = 0 /\ neg_parses = 0 /\ pos_first_parses = 0 /\ pos_best_scored = 0
    /\ at_least_one_failed = FALSE
    /\ InitLocals
    /\ log = <<>> /\ consumed = <<>>
    /\ entries_len = 0 /\ gold = None.resolution /\ rows = <<>> /\ fed = <<>>

\* run_corpus line 244 takes the next test case and calls
\* _run_corpus_one_test, which runs its lines 151-157.
CallOneTest ==
    /\ pc = "run_loop"
    /\ Len(consumed) < corpus_len
    /\ \E tgt \in Targets, n \in 0..MaxTests :
        /\ target' = tgt
        /\ tests_len' = n
        /\ consumed' = Append(consumed, [target |-> tgt, tests_len |-> n, sentences |-> <<>>])
    /\ tests_done' = 0
    /\ all_tests_pass' = TRUE
    /\ Xs_' = <<>> /\ ys_' = <<>>
    /\ total_tests_' = 0 /\ pos_parses_' = 0 /\ neg_parses_' = 0
    /\ pos_first_parses_' = 0 /\ pos_best_scored_' = 0
    /\ pc' = "test_loop"
    /\ UNCHANGED <<runVars, sentVars, log, buildVars>>

\* lines 158-161: the next sentence of the test case.
NextTest ==
    /\ pc = "test_loop"
    /\ tests_done < tests_len
    /\ one_prod_passes' = FALSE
    /\ first_prod' = TRUE
    /\ y_score' = <<>>
    /\ consumed' = [consumed EXCEPT ![Len(consumed)].sentences = Append(@, <<>>)]
    /\ pc' = "parse_loop"
    /\ UNCHANGED <<runVars, testVars, log, buildVars>>

\* lines 162-186: the generator yields one more candidate.
ParseYielded ==
    /\ pc = "parse_loop"
    /\ pos_parses + neg_parses + pos_parses_ + neg_parses_ < MaxParses
    /\ \E parse \in Candidates :
        LET y == NbStr(parse.resolution) = target IN
        /\ Xs_' = Xs_ \o SamplesX(parse)
        /\ ys_' = ys_ \o SamplesY(parse, y)
        /\ one_prod_passes' = OrAssign(one_prod_passes, y)
        /\ pos_parses_' = pos_parses_ + BoolInt(y)
        /\ neg_parses_' = neg_parses_ + BoolInt(~y)
        /\ pos_first_parses_' = pos_first_parses_ + BoolInt(FirstCorrect(y, first_prod))
        /\ first_prod' = FALSE
        /\ y_score' = Append(y_score, <<parse.score, y>>)
        /\ consumed' = YieldTo(consumed, parse)
    /\ UNCHANGED <<pc, runVars, target, tests_len, tests_done, all_tests_pass,
                   total_tests_, pos_best_scored_, log, buildVars>>

\* lines 187-193: the generator is exhausted.  max() of an empty y_score
\* raises ValueError, which nothing catches.
ParsesExhausted ==
    /\ pc = "parse_loop"
    /\ log' = IF ~one_prod_passes
              THEN Append(log, [level |-> "warning", msg |-> "never produced",
                                target |-> target,
                                test |-> <<Len(consumed), tests_done + 1>>])
              ELSE log
    /\ IF y_score = <<>>
       THEN /\ pc' = "ValueError"
            /\ UNCHANGED <<pos_best_scored_, total_tests_, all_tests_pass, tests_done>>
       ELSE /\ pos_best_scored_' = pos_best_scored_ + BoolInt(MaxByScore(y_score)[2])
            /\ total_tests_' = total_tests_ + tests_len
            /\ all_tests_pass' = AndAssign(all_tests_pass, one_prod_passes)
            /\ tests_done' = tests_done + 1
            /\ pc' = "test_loop"
    /\ UNCHANGED <<runVars, target, tests_len, Xs_, ys_, pos_parses_, neg_parses_,
                   pos_first_parses_, sentVars, consumed, buildVars>>

\* lines 194-206: _run_corpus_one_test returns; run_corpus lines 255-262
\* add the results to its accumulators.
OneTestReturns ==
    /\ pc = "test_loop"
    /\ tests_done = tests_len
    /\ LET at_least_one_failed_ == ~all_tests_pass IN
        /\ log' = IF ~all_tests_pass
                  THEN Append(log, [level |-> "warning", msg |-> "not always produced",
                                    target |-> target, test |-> <<Len(consumed), 0>>])
                  ELSE log
        /\ at_least_one_failed' = OrFailed(at_least_one_failed, at_least_one_failed_)
    /\ Xs' = Xs \o Xs_
    /\ ys' = ys \o ys_
    /\ total_tests' = total_tests + total_tests_
    /\ pos_parses' = pos_parses + pos_parses_
    /\ neg_parses' = neg_parses + neg_parses_
    /\ pos_first_parses' = pos_first_parses + pos_first_parses_
    /\ pos_best_scored' = pos_best_scored + pos_best_scored_
    /\ pc' = "run_loop"
    /\ UNCHANGED <<corpus_len, consumed, buildVars>>
    /\ one_prod_passes' = FALSE /\ first_prod' = TRUE /\ y_score' = <<>>
    /\ target' = "" /\ tests_len' = 0 /\ tests_done' = 0 /\ all_tests_pass' = TRUE
    /\ Xs_' = <<>> /\ ys_' = <<>>
    /\ total_tests_' = 0 /\ pos_parses_' = 0 /\ neg_parses_' = 0
    /\ pos_first_parses_' = 0 /\ pos_best_scored_' = 0

\* The four records of lines 263-283; a share is logged as the pair of the
\* numerator and the denominator of the division the code performs.
RunInfo ==
    [level |-> "info", msg |-> "run tests on targets",
     total_tests |-> total_tests, targets |-> corpus_len,
     pos |-> pos_parses, neg |-> neg_parses, all |-> pos_parses + neg_parses]

ShareInfo(text, num, den) == [level |-> "info", msg |-> text, num |-> num, den |-> den]

\* line 271
ShareCorrect == ShareInfo("share of correct parses in all parses",
                          pos_parses, pos_parses + neg_parses)
\* line 276
ShareFirst == ShareInfo("share of correct parses being produced first",
                        pos_first_parses, pos_parses + neg_parses)
\* line 281
ShareBest == ShareInfo("share of correct parses being scored highest",
                       pos_best_scored, total_tests)

\* run_corpus, lines 263-286: the loop is over.  A division by zero raises
\* ZeroDivisionError before the record is logged.
RunFinishes ==
    /\ pc = "run_loop"
    /\ Len(consumed) = corpus_len
    /\ IF pos_parses + neg_parses = 0
       THEN /\ log' = Append(log, RunInfo)
            /\ pc' = "ZeroDivisionError"
       ELSE IF total_tests = 0
       THEN /\ log' = log \o <<RunInfo, ShareCorrect, ShareFirst>>
            /\ pc' = "ZeroDivisionError"
       ELSE /\ log' = log \o <<RunInfo, ShareCorrect, ShareFirst, ShareBest>>
            /\ pc' = IF at_least_one_failed THEN "raised" ELSE "returned"
    /\ UNCHANGED <<runVars, testVars, sentVars, consumed, buildVars>>

\* ---------------------------------------------------------------- builder
\* The number of results the generator has yielded to the builder so far.
RECURSIVE Yielded(_)
Yielded(f) == IF f = <<>> THEN 0 ELSE Len(f[1].parses) + Yielded(Tail(f))

\* make_partial_rule_dataset is called (lines 71-78; the progress bar only
\* wraps the entries and changes nothing that is yielded).
InitBuild ==
    /\ pc = "entries_loop"
    /\ entries_len \in 0..MaxEntries
    /\ gold = None.resolution /\ rows = <<>> /\ fed = <<>>
    /\ corpus_len = 0
    /\ Xs = <<>> /\ ys = <<>>
    /\ total_tests = 0
    /\ pos_parses = 0 /\ neg_parses = 0 /\ pos_first_parses = 0 /\ pos_best_scored = 0
    /\ at_least_one_failed = FALSE
    /\ InitLocals
    /\ log = <<>> /\ consumed = <<>>

\* line 80: the next entry.
NextEntry ==
    /\ pc = "entries_loop"
    /\ Len(fed) < entries_len
    /\ \E g \in Resolutions :
        /\ gold' = g
        /\ fed' = Append(fed, [gold |-> g, parses |-> <<>>])
    /\ pc' = "gen_loop"
    /\ UNCHANGED <<runVars, testVars, sentVars, log, consumed, entries_len, rows>>

\* lines 81-101: the generator yields one more result, a parse or None.
EntryParseYielded ==
    /\ pc = "gen_loop"
    /\ Yielded(fed) < MaxParses
    /\ \E parse \in Candidates \cup {None} :
        /\ fed' = [fed EXCEPT ![Len(fed)].parses = Append(@, parse)]
        /\ IF parse = None
           THEN rows' = rows
           ELSE LET y == parse.resolution = gold IN
                rows' = rows \o PartialRules(parse, y)
    /\ UNCHANGED <<pc, runVars, testVars, sentVars, log, consumed, entries_len, gold>>

\* line 81: the generator is exhausted for this entry.
EntryParsesExhausted ==
    /\ pc = "gen_loop"
    /\ pc' = "entries_loop"
    /\ UNCHANGED <<runVars, testVars, sentVars, log, consumed, buildVars>>

\* line 80: no entry is left, the builder is exhausted.
BuilderExhausted ==
    /\ pc = "entries_loop"
    /\ Len(fed) = entries_len
    /\ pc' = "exhausted"
    /\ UNCHANGED <<runVars, testVars, sentVars, log, consumed, buildVars>>

\* ---------------------------------------------------------- specification
Init == InitRun \/ InitBuild

Next ==
    \/ CallOneTest \/ NextTest \/ ParseYielded \/ ParsesExhausted
    \/ OneTestReturns \/ RunFinishes
    \/ NextEntry \/ EntryParseYielded \/ EntryParsesExhausted \/ BuilderExhausted

Spec == Init /\ [][Next]_vars

\* ------------------------------------------- what was read, what is expected
RECURSIVE Flatten(_)
Flatten(ss) == IF ss = <<>> THEN <<>> ELSE Head(ss) \o Flatten(Tail(ss))

Count(seq, P(_)) == Cardinality({ k \in 1..Len(seq) : P(seq[k]) })

Range(seq) == { seq[k] : k \in 1..Len(seq) }

\* A call of _run_corpus_one_test is running (or was aborted by ValueError).
InTest == pc \in {"test_loop", "parse_loop", "ValueError"}

\* run_corpus is over, one way or another.
Terminated == pc \in {"returned", "raised", "ValueError", "ZeroDivisionError"}

\* The number of test cases whose call has returned.
Done == IF InTest THEN Len(consumed) - 1 ELSE Len(consumed)

\* The sentences of test case t read so far, each with its target.
Sent(t) ==
    [s \in 1..Len(consumed[t].sentences) |->
        [cands |-> consumed[t].sentences[s], target |-> consumed[t].target, at |-> <<t, s>>]]

DoneSentences    == Flatten([t \in 1..Done |-> Sent(t)])
StartedSentences == IF InTest THEN Sent(Len(consumed)) ELSE <<>>
FoldedSentences  == IF InTest THEN SubSeq(Sent(Len(consumed)), 1, tests_done) ELSE <<>>
AllSentences     == Flatten([t \in 1..Len(consumed) |-> Sent(t)])

\* Terminal correctness of a candidate in the validator and in the builder.
Correct(c, tgt)   == NbStr(c.resolution) = tgt
CorrectB(c, g)    == c.resolution = g

HasCorrect(sn) == \E k \in 1..Len(sn.cands) : Correct(sn.cands[k], sn.target)

TopScore(sn) == CHOOSE m \in Scores :
                    /\ \E k \in 1..Len(sn.cands) : sn.cands[k].score = m
                    /\ \A k \in 1..Len(sn.cands) : sn.cands[k].score <= m
IsTop(sn, k)       == sn.cands[k].score = TopScore(sn)
SomeTopCorrect(sn) == \E k \in 1..Len(sn.cands) : IsTop(sn, k) /\ Correct(sn.cands[k], sn.target)
AllTopCorrect(sn)  == \A k \in 1..Len(sn.cands) : IsTop(sn, k) => Correct(sn.cands[k], sn.target)
FirstTopCorrect(sn) ==
    \E k \in 1..Len(sn.cands) :
        /\ IsTop(sn, k) /\ Correct(sn.cands[k], sn.target)
        /\ \A j \in 1..(k - 1) : ~IsTop(sn, j)
FirstCandCorrect(sn) == sn.cands # <<>> /\ Correct(sn.cands[1], sn.target)

\* The stringified prefixes of one production, shortest first.
Prefixes(production) ==
    LET strs == [j \in 1..Len(production) |-> Str(production[j])]
    IN  [i \in 1..Len(production) |-> SubSeq(strs, 1, i)]

\* The rows expected of the sentences sns: features, and labels.
ExpectedX(sns) ==
    Flatten([s \in 1..Len(sns) |->
        Flatten([k \in 1..Len(sns[s].cands) |-> Prefixes(sns[s].cands[k].production)])])
ExpectedY(sns) ==
    Flatten([s \in 1..Len(sns) |->
        Flatten([k \in 1..Len(sns[s].cands) |->
            [i \in 1..Len(sns[s].cands[k].production) |->
                Correct(sns[s].cands[k], sns[s].target)]])])

\* The rows expected of the builder's entries; a None result gives no row.
ExpectedRowsX ==
    Flatten([e \in 1..Len(fed) |->
        Flatten([k \in 1..Len(fed[e].parses) |-> Prefixes(fed[e].parses[k].production)])])
ExpectedRowsY ==
    Flatten([e \in 1..Len(fed) |->
        Flatten([k \in 1..Len(fed[e].parses) |->
            [i \in 1..Len(fed[e].parses[k].production) |->
                CorrectB(fed[e].parses[k], fed[e].gold)]])])

Warned(sn) == \E k \in 1..Len(log) :
                  /\ log[k].level = "warning" /\ log[k].msg = "never produced"
                  /\ log[k].test = sn.at

\* ------------------------------------------------------------------ claims
\* C1 (as claimed): when the run is over and some sentence had no correct
\* candidate (a sentence with no candidate at all included), the whole
\* corpus was processed, a warning was logged for that sentence, and the
\* run ended by raising the coverage error.
C1_CoverageErrorAfterWholeCorpus ==
    (Terminated /\ \E k \in 1..Len(AllSentences) : ~HasCorrect(AllSentences[k]))
    => /\ pc = "raised"
       /\ Len(consumed) = corpus_len
       /\ \A t \in 1..Len(consumed) : Len(consumed[t].sentences) = consumed[t].tests_len
       /\ \A k \in 1..Len(AllSentences) :
              ~HasCorrect(AllSentences[k]) => Warned(AllSentences[k])

\* C2 (as claimed): when the run is over and every sentence of every test
\* case had a correct candidate, the run returned (Xs, ys) and raised nothing.
C2_AllCoveredReturns ==
    (Terminated /\ \A k \in 1..Len(AllSentences) : HasCorrect(AllSentences[k]))
    => pc = "returned"

\* C3 (as claimed): total_tests of one test case is the number of its
\* sentences, and total_tests of the run is the number of sentences of all
\* test cases.
C3_TotalTestsCountsSentences ==
    /\ (pc = "test_loop" /\ tests_done = tests_len) => total_tests_ = tests_len
    /\ pc \in {"returned", "raised"} => total_tests = Len(AllSentences)

\* The state predicate of C4.
C4_Labels ==
    /\ ys = ExpectedY(DoneSentences)
    /\ InTest => ys_ = ExpectedY(StartedSentences)
    /\ [k \in 1..Len(rows) |-> rows[k][2]] = ExpectedRowsY

\* C4: every row's label is the terminal correctness of the candidate the
\* row was derived from, in the validator (canonical text = target) and in
\* the builder (resolution = gold): all prefix rows of a candidate carry
\* that one label.
C4_LabelIsTerminalCorrectness == []C4_Labels

C4_Witness ==
    /\ pc = "returned"
    /\ \E k \in 1..Len(AllSentences) :
        \E a, b \in 1..Len(AllSentences[k].cands) :
            /\ Len(AllSentences[k].cands[a].production) = 2
            /\ Correct(AllSentences[k].cands[a], AllSentences[k].target)
            /\ ~Correct(AllSentences[k].cands[b], AllSentences[k].target)
    /\ TRUE \in Range(ys) /\ FALSE \in Range(ys)

\* The state predicate of C5.
C5_Rows ==
    /\ Xs = ExpectedX(DoneSentences)
    /\ InTest => Xs_ = ExpectedX(StartedSentences)
    /\ [k \in 1..Len(rows) |-> rows[k][1]] = ExpectedRowsX
    /\ Len(Xs) = Len(ys) /\ Len(Xs_) = Len(ys_)

C6_BestScored ==
    /\ pos_best_scored <= Count(DoneSentences, SomeTopCorrect)
    /\ pos_best_scored >= Count(DoneSentences, AllTopCorrect)
    /\ InTest => /\ pos_best_scored_ <= Count(FoldedSentences, SomeTopCorrect)
                 /\ pos_best_scored_ >= Count(FoldedSentences, AllTopCorrect)

\* C6: pos_best_scored counts a sentence only when a candidate with the
\* highest score of that sentence is correct, and counts it whenever all of
\* them are; a sentence with scores 0.9 (incorrect) and 0.4 (correct) is
\* not counted, in either yield order.
C6_BestScoredNeedsTopCorrect == []C6_BestScored

C6_Witness ==
    /\ pc = "returned"
    /\ Len(AllSentences) = 1
    /\ Len(AllSentences[1].cands) = 2
    /\ AllSentences[1].cands[1].score = 4 /\ Correct(AllSentences[1].cands[1], AllSentences[1].target)
    /\ AllSentences[1].cands[2].score = 9 /\ ~Correct(AllSentences[1].cands[2], AllSentences[1].target)
    /\ pos_best_scored = 0

\* The state predicate of C7.
C7_FirstYielded ==
    /\ pos_first_parses = Count(DoneSentences, FirstCandCorrect)
    /\ InTest => pos_first_parses_ = Count(StartedSentences, FirstCandCorrect)
    /\ LET NonEmpty(sn) == sn.cands # <<>>
       IN  pos_first_parses <= Count(DoneSentences, NonEmpty)

\* C7: pos_first_parses counts exactly the sentences whose first yielded
\* candidate is correct, whatever the scores and whatever is yielded later;
\* it is at most the number of sentences that yielded a candidate.
C7_FirstYieldedCorrect == []C7_FirstYielded

C7_Witness ==
    /\ pc = "returned"
    /\ Len(AllSentences) = 2
    /\ Len(AllSentences[1].cands) = 2
    /\ ~Correct(AllSentences[1].cands[1], AllSentences[1].target)
    /\ Correct(AllSentences[1].cands[2], AllSentences[1].target)
    /\ AllSentences[1].cands[1].score < AllSentences[1].cands[2].score
    /\ FirstCandCorrect(AllSentences[2])
    /\ pos_first_parses = 1

\* The state predicate of C8: each flag is the fold of what was read so far.
C8_Flags ==
    (pc = "parse_loop" =>
        one_prod_passes = HasCorrect(StartedSentences[Len(StartedSentences)]))
    /\ (InTest => all_tests_pass =
                    (\A s \in 1..Len(FoldedSentences) : HasCorrect(FoldedSentences[s])))
    /\ (at_least_one_failed =
            (\E t \in 1..Done : \E s \in 1..Len(Sent(t)) : ~HasCorrect(Sent(t)[s])))

C9_ShareFirstOverPositives ==
    pc \in {"returned", "raised"} =>
        \E k \in 1..Len(log) :
            /\ log[k].msg = "share of correct parses being produced first"
            /\ log[k].num = pos_first_parses
            /\ log[k].den = pos_parses

\* The state predicate of C10.
C10_EarliestTop ==
    /\ pos_best_scored = Count(DoneSentences, FirstTopCorrect)
    /\ InTest => pos_best_scored_ = Count(FoldedSentences, FirstTopCorrect)
    /\ LET ConstScore(sn) == \A a, b \in 1..Len(sn.cands) : sn.cands[a].score = sn.cands[b].score
       IN  (pc \in {"returned", "raised"} /\ Count(AllSentences, ConstScore) = Len(AllSentences))
           => pos_best_scored = pos_first_parses

\* C10: among the candidates of a sentence that tie for the highest score
\* the earliest yielded decides pos_best_scored; so when the scores within
\* every sentence are all equal, pos_best_scored = pos_first_parses after
\* the run.
C10_EarliestTopDecides == []C10_EarliestTop

C10_Witness ==
    /\ pc = "returned"
    /\ Len(AllSentences) = 2
    /\ Len(AllSentences[1].cands) = 2
    /\ AllSentences[1].cands[1].score = AllSentences[1].cands[2].score
    /\ Correct(AllSentences[1].cands[1], AllSentences[1].target)
    /\ ~Correct(AllSentences[1].cands[2], AllSentences[1].target)
    /\ AllSentences[2].cands[1].score # AllSentences[1].cands[1].score
    /\ pos_best_scored = 2 /\ pos_first_parses = 2
====
